---------------------------- MODULE Spec2Model ----------------------------
(***************************************************************************)
(* Model of cpp/src/arrow/filesystem/filesystem.cc: the default methods of *)
(* FileSystem, the SubTreeFileSystem and SlowFileSystem decorators and the *)
(* URI resolver (FileSystemFromUri / FileSystemFromUriOrPath).             *)
(*                                                                         *)
(* A std::string is a sequence of one-character strings.  A Result<T> or   *)
(* Status is a record [kind, val]: kind "OK" carries the value, any other  *)
(* kind is the StatusCode and val the message (a sequence).                *)
(***************************************************************************)
EXTENDS Naturals, Sequences, FiniteSets, TLC

VARIABLES
    build,           \* compile-time configuration: ARROW_HDFS, ARROW_S3, _WIN32
    base_path,       \* SubTreeFileSystem::base_path_
    store,           \* entries of the wrapped filesystem (locations that exist)
    pc,              \* the caller: "idle", or "returned" with a result to read
    last,            \* the call made on the filesystem under test, with its result
    calls,           \* calls the wrapped filesystem received during that call
    back,            \* what the wrapped filesystem (or URI parser) returned, per call
    direct,          \* result of the same call issued on the wrapped filesystem directly
    sleeps,          \* LatencyGenerator::Sleep() draws during that call
    s3_initialized   \* process-wide S3 client initialisation has run

vars == <<build, base_path, store, pc, last, calls, back, direct, sleeps, s3_initialized>>

-----------------------------------------------------------------------------
(* Bounds *)

MaxReqLen == 3      \* length of a request path given to a decorator
MaxInfos == 2       \* entries a selector listing of the wrapped filesystem returns
MaxPaths == 3       \* paths in a batch call
MaxUriTail == 3     \* characters of a URI path after its leading slash

-----------------------------------------------------------------------------
(* Strings *)

StrsUpTo(alpha, n) == UNION {[1..k -> alpha] : k \in 0..n}

StartsWith(s, prefix) ==
    /\ Len(s) >= Len(prefix)
    /\ SubSeq(s, 1, Len(prefix)) = prefix

Substr(s, pos) == SubSeq(s, pos + 1, Len(s))

kSep == "/"

(* Status and Result values *)
OK(v) == [kind |-> "OK", val |-> v]
Error(code, msg) == [kind |-> code, val |-> msg]
StatusOK == OK(<<>>)

-----------------------------------------------------------------------------
(* arrow/filesystem/path_util: pure helpers used by filesystem.cc *)

EnsureTrailingSlash(s) ==
    IF Len(s) > 0 /\ s[Len(s)] # kSep THEN Append(s, kSep) ELSE s

RECURSIVE RemoveLeadingSlash(_)
RemoveLeadingSlash(s) ==
    IF Len(s) > 0 /\ s[1] = kSep THEN RemoveLeadingSlash(Tail(s)) ELSE s

RECURSIVE RemoveTrailingSlash(_)
RemoveTrailingSlash(s) ==
    IF Len(s) > 0 /\ s[Len(s)] = kSep
    THEN RemoveTrailingSlash(SubSeq(s, 1, Len(s) - 1))
    ELSE s

ConcatAbstractPath(base, stem) ==
    IF base = <<>> THEN stem
    ELSE EnsureTrailingSlash(base) \o RemoveLeadingSlash(stem)

ToSlashes(s) ==
    IF build.win32
    THEN [i \in 1..Len(s) |-> IF s[i] = "\\" THEN kSep ELSE s[i]]
    ELSE s

(* The location a path denotes in a filesystem that resolves "." and "..": *)
(* its components, with empty and "." components dropped and ".." going to *)
(* the parent (the root is its own parent).                                *)
PushPart(stack, part) ==
    IF part = <<>> \/ part = <<".">> THEN stack
    ELSE IF part = <<".", ".">>
         THEN (IF stack = <<>> THEN stack ELSE SubSeq(stack, 1, Len(stack) - 1))
         ELSE Append(stack, part)

RECURSIVE Walk(_, _, _)
Walk(s, part, stack) ==
    IF s = <<>> THEN PushPart(stack, part)
    ELSE IF Head(s) = kSep THEN Walk(Tail(s), <<>>, PushPart(stack, part))
    ELSE Walk(Tail(s), Append(part, Head(s)), stack)

Resolve(path) == Walk(path, <<>>, <<>>)

IsAtOrUnder(loc, root) == StartsWith(loc, root)

RECURSIVE JoinParts(_)
JoinParts(parts) ==
    IF parts = <<>> THEN <<>>
    ELSE IF Len(parts) = 1 THEN parts[1]
    ELSE parts[1] \o <<kSep>> \o JoinParts(Tail(parts))

Canonical(path) == JoinParts(Resolve(path))


-----------------------------------------------------------------------------
(* The wrapped filesystem: an external collaborator.  Its contents are     *)
(* observed at the locations of Tracked; every call it receives is logged  *)
(* in calls.  It resolves "." and ".." as a local filesystem does.         *)

cA == <<"a">>
cB == <<"b">>
cX == <<"x">>

Tracked == {<<cA>>, <<cA, cB>>, <<cA, cB, cX>>, <<cA, cX>>}

InitStore == {<<cA>>, <<cA, cB>>}

ForeignPath == <<"a", "/", "c", "/", "x">>

Parent(loc) == SubSeq(loc, 1, Len(loc) - 1)

Exists(loc, st) == loc = <<>> \/ loc \in st

Below(loc, st) == {l \in st : StartsWith(l, loc) /\ l # loc}

Ancestors(loc) == {SubSeq(loc, 1, k) : k \in 1..Len(loc)}

BackendError(path) == Error("IOError", path)

Stream(loc) == [file |-> loc, delayed |-> FALSE]

Call(op, paths, flag) == [op |-> op, paths |-> paths, flag |-> flag]

(* The wrapped filesystem's mutating and stream operations: [ret, store].  *)
MockApply(op, paths, flag, st) ==
    LET loc == Resolve(paths[1])
        dst == Resolve(paths[Len(paths)])
        fail == [ret |-> BackendError(paths[1]), store |-> st]
    IN CASE op = "CreateDir" ->
              IF flag THEN [ret |-> StatusOK, store |-> st \cup (Ancestors(loc) \cap Tracked)]
              ELSE IF ~Exists(Parent(loc), st) THEN fail
              ELSE [ret |-> StatusOK, store |-> st \cup ({loc} \cap Tracked)]
         [] op = "DeleteDir" ->
              IF loc \notin st THEN fail
              ELSE [ret |-> StatusOK, store |-> st \ (Below(loc, st) \cup {loc})]
         [] op = "DeleteDirContents" ->
              IF ~Exists(loc, st) THEN fail
              ELSE [ret |-> StatusOK, store |-> st \ Below(loc, st)]
         [] op = "DeleteFile" ->
              IF loc \notin st THEN fail
              ELSE [ret |-> StatusOK, store |-> st \ {loc}]
         [] op = "Move" ->
              IF loc \notin st THEN fail
              ELSE [ret |-> StatusOK, store |-> (st \ {loc}) \cup ({dst} \cap Tracked)]
         [] op = "CopyFile" ->
              IF loc \notin st THEN fail
              ELSE [ret |-> StatusOK, store |-> st \cup ({dst} \cap Tracked)]
         [] op \in {"OpenInputStream", "OpenInputFile"} ->
              IF loc \notin st THEN fail
              ELSE [ret |-> OK(Stream(loc)), store |-> st]
         [] op \in {"OpenOutputStream", "OpenAppendStream"} ->
              [ret |-> OK(Stream(loc)), store |-> st \cup ({loc} \cap Tracked)]

(* The forms in which the wrapped filesystem may spell a path it was given: *)
(* as given, without trailing slash (the FileInfo form), in canonical form, *)
(* or (a contract violation) a path of another directory.                   *)
BackReturns(path) ==
    {path, RemoveTrailingSlash(path), Canonical(path), ForeignPath}

ListReturns(dir) ==
    {ConcatAbstractPath(dir, cX), ForeignPath}

TypeAt(loc, st) == IF Exists(loc, st) THEN "Directory" ELSE "NonExistent"

FileInfo(path, type) == [path |-> path, type |-> type]

MockGetTargetInfo(path, st) ==
    {OK(FileInfo(q, TypeAt(Resolve(path), st))) : q \in BackReturns(path)}
        \cup {BackendError(path)}

MockGetTargetInfos(selector, st) ==
    IF ~Exists(Resolve(selector.base_dir), st)
    THEN {IF selector.allow_not_found THEN OK(<<>>) ELSE BackendError(selector.base_dir)}
    ELSE {OK(infos) : infos \in
            StrsUpTo({FileInfo(q, "File") : q \in ListReturns(selector.base_dir)},
                     MaxInfos)}

MockNormalizePath(path) ==
    {OK(q) : q \in BackReturns(path)} \cup {Error("Invalid", path)}

-----------------------------------------------------------------------------
(* The caller *)

NoCall == [op |-> "none", args |-> <<>>, ret |-> StatusOK]
NoDirect == StatusOK

(* A call returns: the result, the calls the wrapped filesystem received,  *)
(* what it answered and its contents afterwards.                           *)
Return(op, args, ret, cs, bk, st) ==
    /\ pc = "idle"
    /\ pc' = "returned"
    /\ last' = [op |-> op, args |-> args, ret |-> ret]
    /\ calls' = cs
    /\ back' = bk
    /\ store' = st

(* The caller reads the result and is ready for the next call. *)
Acknowledge ==
    /\ pc = "returned"
    /\ pc' = "idle"
    /\ last' = NoCall
    /\ calls' = <<>>
    /\ back' = <<>>
    /\ direct' = NoDirect
    /\ sleeps' = 0
    /\ UNCHANGED <<build, base_path, store, s3_initialized>>

NoBuild == [hdfs |-> FALSE, s3 |-> FALSE, win32 |-> FALSE]

-----------------------------------------------------------------------------
(* FileSystem default method implementations *)

FileSystem_NormalizePath(path) == OK(path)

-----------------------------------------------------------------------------
(* SubTreeFileSystem *)

ReqPaths == StrsUpTo({"x", "/", "."}, MaxReqLen)

BaseAB == <<"a", "/", "b", "/">>

RawBasePaths == {<<>>, <<"/">>, <<"a", "/", "b">>, BaseAB}

NormalizeBasePath(raw) ==
    LET normalized == FileSystem_NormalizePath(raw)
    IN IF normalized.kind # "OK" THEN normalized
       ELSE OK(EnsureTrailingSlash(normalized.val))

PrependBase(s) ==
    IF s = <<>> THEN base_path ELSE ConcatAbstractPath(base_path, s)

PrependBaseNonEmpty_NoCheck(s) == OK(ConcatAbstractPath(base_path, s))

PrependBaseNonEmpty(s) ==
    IF s = <<>> THEN Error("IOError", <<"Empty path">>)
    ELSE OK(ConcatAbstractPath(base_path, s))

StripBase_NoCheck(s) == OK(Substr(s, Len(base_path)))

StripBase_OffByOne(s) ==
    LET len == Len(base_path)
    IN IF Len(s) >= len /\ SubSeq(s, 1, len) = base_path
       THEN OK(Substr(s, len + 1))
       ELSE Error("UnknownError", <<"not a subpath", s, base_path>>)

StripBase(s) ==
    LET len == Len(base_path)
    IN IF Len(s) >= len /\ SubSeq(s, 1, len) = base_path
       THEN OK(Substr(s, len))
       ELSE Error("UnknownError", <<"not a subpath", s, base_path>>)

(* FixInfo: the Status, with the FileInfo as rewritten in place. *)
FixInfo(info) ==
    LET fixed_path == StripBase(info.path)
    IN IF fixed_path.kind # "OK" THEN fixed_path
       ELSE OK([info EXCEPT !.path = fixed_path.val])

(* The loop of GetTargetInfos(selector) over the returned infos. *)
RECURSIVE FixInfos(_, _)
FixInfos(infos, fixed) ==
    IF infos = <<>> THEN OK(fixed)
    ELSE LET st == FixInfo(Head(infos))
         IN IF st.kind # "OK" THEN st
            ELSE FixInfos(Tail(infos), Append(fixed, st.val))

(* One call delegated to the wrapped filesystem, whose status is returned. *)
Delegate(op, args, paths, flag) ==
    LET r == MockApply(op, paths, flag, store)
    IN Return(op, args, r.ret, <<Call(op, paths, flag)>>, <<r.ret>>, r.store)

Reject(op, args, status) == Return(op, args, status, <<>>, <<>>, store)

SubTreeFrame == UNCHANGED <<build, base_path, direct, sleeps, s3_initialized>>

SubTree_NormalizePath ==
    /\ pc = "idle"
    /\ \E path \in ReqPaths :
        \E normalized \in MockNormalizePath(PrependBase(path)) :
            /\ Return("NormalizePath", <<path>>,
                      IF normalized.kind # "OK" THEN normalized
                      ELSE StripBase(normalized.val),
                      <<Call("NormalizePath", <<PrependBase(path)>>, FALSE)>>,
                      <<normalized>>, store)
            /\ SubTreeFrame

SubTree_GetTargetInfo ==
    /\ pc = "idle"
    /\ \E path \in ReqPaths :
        \E info \in MockGetTargetInfo(PrependBase(path), store) :
            /\ Return("GetTargetInfo", <<path>>,
                      IF info.kind # "OK" THEN info ELSE FixInfo(info.val),
                      <<Call("GetTargetInfo", <<PrependBase(path)>>, FALSE)>>,
                      <<info>>, store)
            /\ SubTreeFrame

SubTree_GetTargetInfos ==
    /\ pc = "idle"
    /\ \E base_dir \in ReqPaths, allow_not_found \in BOOLEAN, recursive \in BOOLEAN :
        LET select == [base_dir |-> base_dir, allow_not_found |-> allow_not_found,
                       recursive |-> recursive]
            selector == [select EXCEPT !.base_dir = PrependBase(select.base_dir)]
        IN \E infos \in MockGetTargetInfos(selector, store) :
            /\ Return("GetTargetInfos", <<select>>,
                      IF infos.kind # "OK" THEN infos ELSE FixInfos(infos.val, <<>>),
                      <<Call("GetTargetInfos", <<selector.base_dir>>, recursive)>>,
                      <<infos>>, store)
            /\ SubTreeFrame

SubTree_CreateDir ==
    /\ pc = "idle"
    /\ \E path \in ReqPaths, recursive \in BOOLEAN :
        LET s == PrependBaseNonEmpty(path)
        IN /\ IF s.kind # "OK" THEN Reject("CreateDir", <<path, recursive>>, s)
              ELSE Delegate("CreateDir", <<path, recursive>>, <<s.val>>, recursive)
           /\ SubTreeFrame

SubTree_DeleteDir ==
    /\ pc = "idle"
    /\ \E path \in ReqPaths :
        LET s == PrependBaseNonEmpty(path)
        IN /\ IF s.kind # "OK" THEN Reject("DeleteDir", <<path>>, s)
              ELSE Delegate("DeleteDir", <<path>>, <<s.val>>, FALSE)
           /\ SubTreeFrame

SubTree_DeleteDirContents ==
    /\ pc = "idle"
    /\ \E path \in ReqPaths :
        LET s == PrependBase(path)
        IN /\ Delegate("DeleteDirContents", <<path>>, <<s>>, FALSE)
           /\ SubTreeFrame

SubTree_DeleteFile ==
    /\ pc = "idle"
    /\ \E path \in ReqPaths :
        LET s == PrependBaseNonEmpty(path)
        IN /\ IF s.kind # "OK" THEN Reject("DeleteFile", <<path>>, s)
              ELSE Delegate("DeleteFile", <<path>>, <<s.val>>, FALSE)
           /\ SubTreeFrame

SubTree_Move ==
    /\ pc = "idle"
    /\ \E src \in ReqPaths, dest \in ReqPaths :
        LET s == PrependBaseNonEmpty(src)
            d == PrependBaseNonEmpty(dest)
        IN /\ IF s.kind # "OK" THEN Reject("Move", <<src, dest>>, s)
              ELSE IF d.kind # "OK" THEN Reject("Move", <<src, dest>>, d)
              ELSE Delegate("Move", <<src, dest>>, <<s.val, d.val>>, FALSE)
           /\ SubTreeFrame

SubTree_CopyFile ==
    /\ pc = "idle"
    /\ \E src \in ReqPaths, dest \in ReqPaths :
        LET s == PrependBaseNonEmpty(src)
            d == PrependBaseNonEmpty(dest)
        IN /\ IF s.kind # "OK" THEN Reject("CopyFile", <<src, dest>>, s)
              ELSE IF d.kind # "OK" THEN Reject("CopyFile", <<src, dest>>, d)
              ELSE Delegate("CopyFile", <<src, dest>>, <<s.val, d.val>>, FALSE)
           /\ SubTreeFrame

SubTree_OpenInputStream ==
    /\ pc = "idle"
    /\ \E path \in ReqPaths :
        LET s == PrependBaseNonEmpty(path)
        IN /\ IF s.kind # "OK" THEN Reject("OpenInputStream", <<path>>, s)
              ELSE Delegate("OpenInputStream", <<path>>, <<s.val>>, FALSE)
           /\ SubTreeFrame

SubTree_OpenInputFile ==
    /\ pc = "idle"
    /\ \E path \in ReqPaths :
        LET s == PrependBaseNonEmpty(path)
        IN /\ IF s.kind # "OK" THEN Reject("OpenInputFile", <<path>>, s)
              ELSE Delegate("OpenInputFile", <<path>>, <<s.val>>, FALSE)
           /\ SubTreeFrame

SubTree_OpenOutputStream ==
    /\ pc = "idle"
    /\ \E path \in ReqPaths :
        LET s == PrependBaseNonEmpty(path)
        IN /\ IF s.kind # "OK" THEN Reject("OpenOutputStream", <<path>>, s)
              ELSE Delegate("OpenOutputStream", <<path>>, <<s.val>>, FALSE)
           /\ SubTreeFrame

SubTree_OpenAppendStream ==
    /\ pc = "idle"
    /\ \E path \in ReqPaths :
        LET s == PrependBaseNonEmpty(path)
        IN /\ IF s.kind # "OK" THEN Reject("OpenAppendStream", <<path>>, s)
              ELSE Delegate("OpenAppendStream", <<path>>, <<s.val>>, FALSE)
           /\ SubTreeFrame

(* SubTreeFileSystem(base_path, base_fs): the state after construction. *)
SubTreeInit ==
    /\ build = NoBuild
    /\ \E raw \in RawBasePaths : base_path = NormalizeBasePath(raw).val
    /\ store = InitStore
    /\ pc = "idle"
    /\ last = NoCall
    /\ calls = <<>>
    /\ back = <<>>
    /\ direct = NoDirect
    /\ sleeps = 0
    /\ s3_initialized = FALSE

SubTreeNext ==
    \/ SubTree_NormalizePath
    \/ SubTree_GetTargetInfo
    \/ SubTree_GetTargetInfos
    \/ SubTree_CreateDir
    \/ SubTree_DeleteDir
    \/ SubTree_DeleteDirContents
    \/ SubTree_DeleteFile
    \/ SubTree_Move
    \/ SubTree_CopyFile
    \/ SubTree_OpenInputStream
    \/ SubTree_OpenInputFile
    \/ SubTree_OpenOutputStream
    \/ SubTree_OpenAppendStream
    \/ Acknowledge

SubTreeSpec == SubTreeInit /\ [][SubTreeNext]_vars

-----------------------------------------------------------------------------
(* The path translation applied on its own: request path -> wrapped path   *)
(* -> request path, and wrapped path -> request path -> wrapped path.      *)

StripOfPrepend ==
    /\ pc = "idle"
    /\ \E p \in ReqPaths \ {<<>>} :
        /\ Return("StripOfPrepend", <<p>>, StripBase(PrependBase(p)), <<>>, <<>>, store)
        /\ SubTreeFrame

PrependOfStrip ==
    /\ pc = "idle"
    /\ \E r \in ReqPaths :
        LET q == base_path \o r
            stripped == StripBase(q)
        IN /\ Return("PrependOfStrip", <<q>>,
                     IF stripped.kind # "OK" THEN stripped
                     ELSE OK(PrependBase(stripped.val)),
                     <<>>, <<>>, store)
           /\ SubTreeFrame

RoundTripNext ==
    \/ StripOfPrepend
    \/ PrependOfStrip
    \/ Acknowledge

RoundTripSpec == SubTreeInit /\ [][RoundTripNext]_vars

-----------------------------------------------------------------------------
(* Properties of SubTreeFileSystem *)

Returned(ops) == pc = "returned" /\ last.op \in ops

NoLeadingSlash(s) == s = <<>> \/ s[1] # kSep

(* C1 (as claimed): with base_path "a/b/", every path the wrapped          *)
(* filesystem receives denotes a location at or under a/b.                 *)
C1_SubtreeIsolation ==
    base_path = BaseAB =>
        \A i \in DOMAIN calls : \A j \in DOMAIN calls[i].paths :
            IsAtOrUnder(Resolve(calls[i].paths[j]), Resolve(base_path))

(* C2 (as claimed): get_info("") on a subtree with a non-empty base_path,  *)
(* when the wrapped filesystem reports the existing base directory under a *)
(* path without trailing slash, succeeds with the empty path.              *)
C2_GetInfoOfRoot ==
    ( /\ Returned({"GetTargetInfo"})
      /\ last.args[1] = <<>>
      /\ base_path # <<>>
      /\ back[1].kind = "OK"
      /\ back[1].val.type = "Directory"
      /\ back[1].val.path = RemoveTrailingSlash(base_path)
      /\ back[1].val.path # <<>> )
    => (last.ret.kind = "OK" /\ last.ret.val.path = <<>>)

EmptyPathOps ==
    {"CreateDir", "DeleteDir", "DeleteFile", "OpenInputStream", "OpenInputFile",
     "OpenOutputStream", "OpenAppendStream"}

HasEmptyPath(call) ==
    \/ call.op \in EmptyPathOps /\ call.args[1] = <<>>
    \/ call.op \in {"Move", "CopyFile"}
         /\ (call.args[1] = <<>> \/ call.args[2] = <<>>)

(* C3: a call of create_dir, delete_dir, delete_file or a stream open with *)
(* the empty path, or of move or copy_file with an empty source or         *)
(* destination, returns IOError; the wrapped filesystem receives no call   *)
(* and its contents do not change.                                         *)
C3_EmptyPathRejected ==
    [][ (pc = "idle" /\ pc' = "returned" /\ HasEmptyPath(last'))
        => /\ last'.ret = Error("IOError", <<"Empty path">>)
           /\ calls' = <<>>
           /\ store' = store ]_vars

C3_Witness ==
    /\ Returned({"Move"})
    /\ last.args[1] # <<>>
    /\ last.args[2] = <<>>
    /\ last.ret.kind = "IOError"
    /\ calls = <<>>

ReturnedPaths ==
    IF last.op = "NormalizePath" THEN {back[1].val}
    ELSE IF last.op = "GetTargetInfo" THEN {back[1].val.path}
    ELSE {back[1].val[i].path : i \in DOMAIN back[1].val}

(* C4: when the wrapped filesystem returns a path that does not start with *)
(* base_path, get_info, get_infos(selector) and normalize_path return      *)
(* UnknownError; one such entry anywhere in a listing fails the whole call. *)
C4_OutOfSubtreeDetected ==
    ( /\ Returned({"NormalizePath", "GetTargetInfo", "GetTargetInfos"})
      /\ back[1].kind = "OK"
      /\ \E q \in ReturnedPaths : ~StartsWith(q, base_path) )
    => last.ret.kind = "UnknownError"

C4_Witness ==
    /\ Returned({"GetTargetInfos"})
    /\ back[1].kind = "OK"
    /\ Len(back[1].val) = 2
    /\ StartsWith(back[1].val[1].path, base_path)
    /\ back[1].val[2].path = ForeignPath
    /\ base_path = BaseAB
    /\ last.ret.kind = "UnknownError"

(* C5 (as claimed): StripBase(PrependBase(p)) = p for every non-empty p,   *)
(* and PrependBase(StripBase(q)) = q for every q starting with base_path.  *)
C5_RoundTrip_Original ==
    Returned({"StripOfPrepend", "PrependOfStrip"}) => last.ret = OK(last.args[1])

(* C5 (amended): the two round trips hold when base_path is empty, or when *)
(* p, respectively the rest of q after base_path, has no leading slash.    *)
C5_RoundTrip ==
    /\ ( /\ Returned({"StripOfPrepend"})
         /\ (base_path = <<>> \/ NoLeadingSlash(last.args[1])) )
       => last.ret = OK(last.args[1])
    /\ ( /\ Returned({"PrependOfStrip"})
         /\ (base_path = <<>> \/ NoLeadingSlash(Substr(last.args[1], Len(base_path)))) )
       => last.ret = OK(last.args[1])

C5_Witness ==
    /\ Returned({"PrependOfStrip"})
    /\ base_path = BaseAB
    /\ last.args[1] = BaseAB \o <<"x", "/", "x">>
    /\ last.ret = OK(last.args[1])

-----------------------------------------------------------------------------
(* FileSystem default batch methods, on a filesystem whose GetTargetInfo   *)
(* and DeleteFile are those of the wrapped filesystem above.               *)

(* Status::operator&= keeps the first error. *)
StatusAnd(st, s) == IF st.kind = "OK" /\ s.kind # "OK" THEN s ELSE st

BatchPaths == {JoinParts(loc) : loc \in Tracked}

PathLists == StrsUpTo(BatchPaths, MaxPaths)

(* GetTargetInfos(paths): answers[i] is what GetTargetInfo returns for     *)
(* paths[i] if it is called.  [ret, log, back].                            *)
RECURSIVE GetTargetInfos_KeepGoing(_, _, _, _, _)
GetTargetInfos_KeepGoing(paths, answers, res, log, bk) ==
    IF paths = <<>> THEN [ret |-> OK(res), log |-> log, back |-> bk]
    ELSE LET info == Head(answers)
             log2 == Append(log, Call("GetTargetInfo", <<Head(paths)>>, FALSE))
         IN GetTargetInfos_KeepGoing(Tail(paths), Tail(answers),
                IF info.kind # "OK" THEN res ELSE Append(res, info.val),
                log2, Append(bk, info))

RECURSIVE GetTargetInfosLoop(_, _, _, _, _)
GetTargetInfosLoop(paths, answers, res, log, bk) ==
    IF paths = <<>> THEN [ret |-> OK(res), log |-> log, back |-> bk]
    ELSE LET info == Head(answers)
             log2 == Append(log, Call("GetTargetInfo", <<Head(paths)>>, FALSE))
         IN IF info.kind # "OK"
            THEN [ret |-> info, log |-> log2, back |-> Append(bk, info)]
            ELSE GetTargetInfosLoop(Tail(paths), Tail(answers),
                                    Append(res, info.val), log2, Append(bk, info))

(* DeleteFiles(paths): [ret, log, back, store]. *)
RECURSIVE DeleteFiles_ShortCircuit(_, _, _, _, _)
DeleteFiles_ShortCircuit(paths, st, log, bk, contents) ==
    IF paths = <<>> \/ st.kind # "OK"
    THEN [ret |-> st, log |-> log, back |-> bk, store |-> contents]
    ELSE LET r == MockApply("DeleteFile", <<Head(paths)>>, FALSE, contents)
         IN DeleteFiles_ShortCircuit(Tail(paths), StatusAnd(st, r.ret),
                Append(log, Call("DeleteFile", <<Head(paths)>>, FALSE)),
                Append(bk, r.ret), r.store)

RECURSIVE DeleteFilesLoop(_, _, _, _, _)
DeleteFilesLoop(paths, st, log, bk, contents) ==
    IF paths = <<>>
    THEN [ret |-> st, log |-> log, back |-> bk, store |-> contents]
    ELSE LET r == MockApply("DeleteFile", <<Head(paths)>>, FALSE, contents)
         IN DeleteFilesLoop(Tail(paths), StatusAnd(st, r.ret),
                Append(log, Call("DeleteFile", <<Head(paths)>>, FALSE)),
                Append(bk, r.ret), r.store)

(* The answers GetTargetInfo can give for each path of a list. *)
RECURSIVE AnswerLists(_, _)
AnswerLists(paths, st) ==
    IF paths = <<>> THEN {<<>>}
    ELSE {<<a>> \o rest : a \in MockGetTargetInfo(Head(paths), st),
                           rest \in AnswerLists(Tail(paths), st)}

DefaultFrame == UNCHANGED <<build, base_path, direct, sleeps, s3_initialized>>

FileSystem_GetTargetInfos ==
    /\ pc = "idle"
    /\ \E paths \in PathLists :
        \E answers \in AnswerLists(paths, store) :
            LET r == GetTargetInfosLoop(paths, answers, <<>>, <<>>, <<>>)
            IN /\ Return("GetTargetInfos/paths", <<paths>>, r.ret, r.log, r.back, store)
               /\ DefaultFrame

FileSystem_DeleteFiles ==
    /\ pc = "idle"
    /\ \E paths \in PathLists :
        LET r == DeleteFilesLoop(paths, StatusOK, <<>>, <<>>, store)
        IN /\ Return("DeleteFiles", <<paths>>, r.ret, r.log, r.back, r.store)
           /\ DefaultFrame

DefaultInit ==
    /\ build = NoBuild
    /\ base_path = <<>>
    /\ store \in SUBSET Tracked
    /\ pc = "idle"
    /\ last = NoCall
    /\ calls = <<>>
    /\ back = <<>>
    /\ direct = NoDirect
    /\ sleeps = 0
    /\ s3_initialized = FALSE

DefaultNext ==
    \/ FileSystem_GetTargetInfos
    \/ FileSystem_DeleteFiles
    \/ Acknowledge

DefaultSpec == DefaultInit /\ [][DefaultNext]_vars

(* Properties of the default batch methods *)

FailedCalls == {i \in DOMAIN back : back[i].kind # "OK"}

FirstFailed == CHOOSE i \in FailedCalls : \A j \in FailedCalls : i <= j

(* C7: delete_files calls delete_file once per path, in input order, also  *)
(* after a failure; it returns OK if none failed and otherwise the error   *)
(* of the first path whose delete_file failed.                             *)
C7_DeleteFilesAttemptsAll ==
    Returned({"DeleteFiles"}) =>
        LET paths == last.args[1]
        IN /\ calls = [i \in 1..Len(paths) |-> Call("DeleteFile", <<paths[i]>>, FALSE)]
           /\ Len(back) = Len(paths)
           /\ last.ret = IF FailedCalls = {} THEN StatusOK ELSE back[FirstFailed]

C7_Witness ==
    /\ Returned({"DeleteFiles"})
    /\ Len(last.args[1]) = 3
    /\ Len(calls) = 3
    /\ FailedCalls = {2, 3}
    /\ last.ret = back[2]
    /\ back[2] # back[3]

(* C8: get_infos(paths) calls get_info once per path in input order up to  *)
(* and including the first failure, whose error it returns; no later path  *)
(* is looked up.  Without failure the result holds the i-th FileInfo for   *)
(* the i-th path.                                                          *)
C8_GetInfosShortCircuits ==
    Returned({"GetTargetInfos/paths"}) =>
        LET paths == last.args[1]
            n == IF FailedCalls = {} THEN Len(paths) ELSE FirstFailed
        IN /\ calls = [i \in 1..n |-> Call("GetTargetInfo", <<paths[i]>>, FALSE)]
           /\ Len(back) = n
           /\ IF FailedCalls = {}
              THEN /\ last.ret.kind = "OK"
                   /\ last.ret.val = [i \in 1..Len(paths) |-> back[i].val]
              ELSE last.ret = back[FirstFailed]

C8_Witness ==
    /\ Returned({"GetTargetInfos/paths"})
    /\ Len(last.args[1]) = 3
    /\ Len(calls) = 2
    /\ FailedCalls = {2}
    /\ last.ret = back[2]

-----------------------------------------------------------------------------
(* SlowFileSystem *)

SlowPaths ==
    BatchPaths \cup {EnsureTrailingSlash(p) : p \in BatchPaths}
               \cup {<<".", "/">> \o p : p \in BatchPaths} \cup {<<>>}

(* io::SlowInputStream / io::SlowRandomAccessFile around a stream *)
SlowStream(stream) == [stream EXCEPT !.delayed = TRUE]

(* NormalizePath of the wrapped filesystem: the default, or a canonical form *)
WrappedNormalizePath(path) == {OK(path), OK(Canonical(path))}

SlowFrame == UNCHANGED <<build, base_path, s3_initialized>>

(* latencies_->Sleep(), then one call of the wrapped filesystem *)
SlowDelegate(op, args, paths, flag) ==
    LET r == MockApply(op, paths, flag, store)
    IN /\ Return(op, args, r.ret, <<Call(op, paths, flag)>>, <<r.ret>>, r.store)
       /\ direct' = r.ret
       /\ sleeps' = 1
       /\ SlowFrame

Slow_GetTargetInfo ==
    /\ pc = "idle"
    /\ \E path \in SlowPaths :
        \E info \in MockGetTargetInfo(path, store) :
            /\ Return("GetTargetInfo", <<path>>, info,
                      <<Call("GetTargetInfo", <<path>>, FALSE)>>, <<info>>, store)
            /\ direct' = info
            /\ sleeps' = 1
            /\ SlowFrame

Slow_GetTargetInfos ==
    /\ pc = "idle"
    /\ \E base_dir \in SlowPaths, allow_not_found \in BOOLEAN, recursive \in BOOLEAN :
        LET selector == [base_dir |-> base_dir, allow_not_found |-> allow_not_found,
                         recursive |-> recursive]
        IN \E infos \in MockGetTargetInfos(selector, store) :
            /\ Return("GetTargetInfos", <<selector>>, infos,
                      <<Call("GetTargetInfos", <<selector.base_dir>>, recursive)>>,
                      <<infos>>, store)
            /\ direct' = infos
            /\ sleeps' = 1
            /\ SlowFrame

Slow_CreateDir ==
    /\ pc = "idle"
    /\ \E path \in SlowPaths, recursive \in BOOLEAN :
        SlowDelegate("CreateDir", <<path, recursive>>, <<path>>, recursive)

Slow_DeleteDir ==
    /\ pc = "idle"
    /\ \E path \in SlowPaths : SlowDelegate("DeleteDir", <<path>>, <<path>>, FALSE)

Slow_DeleteDirContents ==
    /\ pc = "idle"
    /\ \E path \in SlowPaths :
        SlowDelegate("DeleteDirContents", <<path>>, <<path>>, FALSE)

Slow_DeleteFile ==
    /\ pc = "idle"
    /\ \E path \in SlowPaths : SlowDelegate("DeleteFile", <<path>>, <<path>>, FALSE)

Slow_Move ==
    /\ pc = "idle"
    /\ \E src \in SlowPaths, dest \in SlowPaths :
        SlowDelegate("Move", <<src, dest>>, <<src, dest>>, FALSE)

Slow_CopyFile ==
    /\ pc = "idle"
    /\ \E src \in SlowPaths, dest \in SlowPaths :
        SlowDelegate("CopyFile", <<src, dest>>, <<src, dest>>, FALSE)

(* Sleep(), open, then the stream wrapped in a latency-injecting proxy *)
SlowOpenInput(op, path) ==
    LET r == MockApply(op, <<path>>, FALSE, store)
    IN /\ Return(op, <<path>>,
                 IF r.ret.kind # "OK" THEN r.ret ELSE OK(SlowStream(r.ret.val)),
                 <<Call(op, <<path>>, FALSE)>>, <<r.ret>>, r.store)
       /\ direct' = r.ret
       /\ sleeps' = 1
       /\ SlowFrame

Slow_OpenInputStream ==
    /\ pc = "idle"
    /\ \E path \in SlowPaths : SlowOpenInput("OpenInputStream", path)

Slow_OpenInputFile ==
    /\ pc = "idle"
    /\ \E path \in SlowPaths : SlowOpenInput("OpenInputFile", path)

Slow_OpenOutputStream ==
    /\ pc = "idle"
    /\ \E path \in SlowPaths :
        SlowDelegate("OpenOutputStream", <<path>>, <<path>>, FALSE)

Slow_OpenAppendStream ==
    /\ pc = "idle"
    /\ \E path \in SlowPaths :
        SlowDelegate("OpenAppendStream", <<path>>, <<path>>, FALSE)

(* Not overridden by SlowFileSystem: FileSystem::NormalizePath. *)
Slow_NormalizePath ==
    /\ pc = "idle"
    /\ \E path \in SlowPaths :
        /\ Return("NormalizePath", <<path>>, FileSystem_NormalizePath(path),
                  <<>>, <<>>, store)
        /\ direct' \in WrappedNormalizePath(path)
        /\ sleeps' = 0
        /\ SlowFrame

(* Not overridden: FileSystem::GetTargetInfos(paths) over Slow GetTargetInfo. *)
Slow_GetTargetInfosOfPaths ==
    /\ pc = "idle"
    /\ \E paths \in PathLists :
        \E answers \in AnswerLists(paths, store) :
            LET r == GetTargetInfosLoop(paths, answers, <<>>, <<>>, <<>>)
            IN /\ Return("GetTargetInfos/paths", <<paths>>, r.ret, r.log, r.back, store)
               /\ direct' = r.ret
               /\ sleeps' = Len(r.log)
               /\ SlowFrame

(* Not overridden: FileSystem::DeleteFiles over Slow DeleteFile. *)
Slow_DeleteFiles ==
    /\ pc = "idle"
    /\ \E paths \in PathLists :
        LET r == DeleteFilesLoop(paths, StatusOK, <<>>, <<>>, store)
        IN /\ Return("DeleteFiles", <<paths>>, r.ret, r.log, r.back, r.store)
           /\ direct' = r.ret
           /\ sleeps' = Len(r.log)
           /\ SlowFrame

SlowInit ==
    /\ build = NoBuild
    /\ base_path = <<>>
    /\ store = InitStore
    /\ pc = "idle"
    /\ last = NoCall
    /\ calls = <<>>
    /\ back = <<>>
    /\ direct = NoDirect
    /\ sleeps = 0
    /\ s3_initialized = FALSE

SlowNext ==
    \/ Slow_GetTargetInfo
    \/ Slow_GetTargetInfos
    \/ Slow_CreateDir
    \/ Slow_DeleteDir
    \/ Slow_DeleteDirContents
    \/ Slow_DeleteFile
    \/ Slow_Move
    \/ Slow_CopyFile
    \/ Slow_OpenInputStream
    \/ Slow_OpenInputFile
    \/ Slow_OpenOutputStream
    \/ Slow_OpenAppendStream
    \/ Slow_NormalizePath
    \/ Slow_GetTargetInfosOfPaths
    \/ Slow_DeleteFiles
    \/ Acknowledge

SlowSpec == SlowInit /\ [][SlowNext]_vars

(* The decorated result and the wrapped filesystem's result are the same:  *)
(* the same status, and the same payload (for an input stream, the same    *)
(* underlying stream behind the latency proxy).                            *)
SameResult(ret, wrapped, op) ==
    IF op \in {"OpenInputStream", "OpenInputFile"} /\ ret.kind = "OK" /\ wrapped.kind = "OK"
    THEN ret.val.file = wrapped.val.file
    ELSE ret = wrapped

(* C6 (as claimed): every operation through SlowFileSystem, normalize_path *)
(* and the batch forms included, returns exactly what the wrapped          *)
(* filesystem returns for it.                                              *)
C6_LatencyTransparency ==
    pc = "returned" => SameResult(last.ret, direct, last.op)

-----------------------------------------------------------------------------
(* URI resolution *)

sFile == <<"f", "i", "l", "e">>
sHdfs == <<"h", "d", "f", "s">>
sViewfs == <<"v", "i", "e", "w", "f", "s">>
sS3 == <<"s", "3">>
sMock == <<"m", "o", "c", "k">>
sFoo == <<"f", "o", "o">>

Schemes == {sFile, sHdfs, sViewfs, sS3, sMock, sFoo}

SchemeChars == UNION {{w[i] : i \in DOMAIN w} : w \in Schemes} \cup {"x"}

Letters == SchemeChars \ {"3"}

UriPaths == {<<>>} \cup {<<kSep>> \o t : t \in StrsUpTo({"x", kSep, "\\"}, MaxUriTail)}

(* scheme://authority/path and scheme:/path, bare paths with and without a *)
(* leading separator or a drive letter, and a string that is no URI        *)
UriStrings ==
    {scheme \o <<":", kSep, kSep>> \o host \o path :
        scheme \in Schemes, host \in {<<>>, <<"h">>}, path \in UriPaths}
    \cup {scheme \o <<":">> \o path : scheme \in Schemes, path \in UriPaths \ {<<>>}}
    \cup StrsUpTo({"x", kSep, "\\"}, MaxUriTail)
    \cup {<<"x", ":", "\\", "x">>, <<"x", ":", kSep, "x">>, <<"x", " ", "x">>}

(* First position of character c in s, or 0 *)
RECURSIVE Find(_, _, _)
Find(s, c, i) ==
    IF i > Len(s) THEN 0 ELSE IF s[i] = c THEN i ELSE Find(s, c, i + 1)

(* arrow::internal::Uri::Parse: an RFC 3986 URI with a non-empty scheme;   *)
(* spaces and backslashes are not URI characters.                          *)
UriParse(uri_string) ==
    LET colon == Find(uri_string, ":", 1)
        scheme == SubSeq(uri_string, 1, colon - 1)
        rest == Substr(uri_string, colon)
        hier == StartsWith(rest, <<kSep, kSep>>)
        after == IF hier THEN Substr(rest, 2) ELSE rest
        slash == Find(after, kSep, 1)
        host == IF ~hier THEN <<>>
                ELSE IF slash = 0 THEN after ELSE SubSeq(after, 1, slash - 1)
        path == IF ~hier THEN rest
                ELSE IF slash = 0 THEN <<>> ELSE Substr(after, slash - 1)
    IN IF \E i \in DOMAIN uri_string : uri_string[i] \in {" ", "\\"}
       THEN Error("Invalid", <<"Cannot parse URI", uri_string>>)
       ELSE IF colon <= 1 \/ \E i \in 1..(colon - 1) : uri_string[i] \notin SchemeChars
       THEN Error("Invalid", <<"URI has empty scheme", uri_string>>)
       ELSE OK([scheme |-> scheme, host |-> host, path |-> path])

(* internal::DetectAbsolutePath *)
DetectAbsolutePath(s) ==
    \/ Len(s) >= 1 /\ s[1] = kSep
    \/ /\ build.win32
       /\ \/ Len(s) >= 1 /\ s[1] = "\\"
          \/ Len(s) >= 3 /\ s[2] = ":" /\ s[3] \in {kSep, "\\"} /\ s[1] \in Letters

NoUri == [scheme |-> <<>>, host |-> <<>>, path |-> <<>>]

FileSystemUri(uri, scheme, path, is_local) ==
    [uri |-> uri, scheme |-> scheme, path |-> path, is_local |-> is_local]

ParseFileSystemUri(uri_string) ==
    LET status == UriParse(uri_string)
        retry == UriParse(ToSlashes(uri_string))
        parsed == IF status.kind = "OK" THEN status ELSE retry
    IN IF status.kind # "OK" /\ ~build.win32 THEN status
       ELSE IF status.kind # "OK" /\ retry.kind # "OK" THEN retry
       ELSE IF status.kind # "OK" /\ retry.val.scheme # sFile THEN status
       ELSE OK(FileSystemUri(parsed.val, parsed.val.scheme, parsed.val.path,
                             parsed.val.scheme = sFile))

ParseFileSystemUriOrPath(uri_string) ==
    IF DetectAbsolutePath(uri_string)
    THEN OK(FileSystemUri(NoUri, <<>>, uri_string, TRUE))
    ELSE ParseFileSystemUri(uri_string)

(* The caller's string when nothing was written to it *)
Untouched == <<"untouched">>

(* S3Options::FromUri(uri, out_path): the bucket folded into the path *)
S3PathFromUri(uri) ==
    IF uri.host = <<>>
    THEN (IF uri.path = <<>> THEN OK(<<>>)
          ELSE Error("Invalid", <<"Missing bucket name">>))
    ELSE OK(RemoveTrailingSlash(uri.host \o uri.path))

Backend(name) == OK(<<name>>)

(* FileSystemFromUriReal(fsuri, uri_string, out_path): [ret, out_path,    *)
(* s3_initialized].  has_out: out_path is not null.  made: the external    *)
(* backend's option parsing and construction succeed.                      *)
Resolved(ret, out_path, initialized) ==
    [ret |-> ret, out_path |-> out_path, s3_initialized |-> initialized]

FileSystemFromUriReal_KeepSlash(fsuri, uri_string, has_out, made) ==
    LET out0 == IF has_out THEN fsuri.path ELSE Untouched
        out1 == out0
        s3path == S3PathFromUri(fsuri.uri)
    IN IF fsuri.is_local
       THEN Resolved(Backend("LocalFileSystem"),
                     IF has_out THEN ToSlashes(out0) ELSE out0, s3_initialized)
       ELSE IF fsuri.scheme = sHdfs \/ fsuri.scheme = sViewfs
       THEN (IF ~build.hdfs
             THEN Resolved(Error("NotImplemented", <<"Arrow compiled without HDFS support">>),
                           out0, s3_initialized)
             ELSE IF ~made
             THEN Resolved(Error("IOError", <<"HadoopFileSystem">>), out0, s3_initialized)
             ELSE Resolved(Backend("HadoopFileSystem"), out0, s3_initialized))
       ELSE IF fsuri.scheme = sS3
       THEN (IF ~build.s3
             THEN Resolved(Error("NotImplemented", <<"Arrow compiled without S3 support">>),
                           out0, s3_initialized)
             ELSE IF s3path.kind # "OK"
             THEN Resolved(s3path, out0, TRUE)
             ELSE IF ~made
             THEN Resolved(Error("IOError", <<"S3FileSystem">>),
                           IF has_out THEN s3path.val ELSE out0, TRUE)
             ELSE Resolved(Backend("S3FileSystem"),
                           IF has_out THEN s3path.val ELSE out0, TRUE))
       ELSE IF fsuri.scheme = sMock
       THEN Resolved(Backend("MockFileSystem"), out1, s3_initialized)
       ELSE Resolved(Error("Invalid", <<"Unrecognized filesystem type in URI", uri_string>>),
                     out1, s3_initialized)

FileSystemFromUriReal(fsuri, uri_string, has_out, made) ==
    LET out0 == IF has_out THEN fsuri.path ELSE Untouched
        out1 == IF has_out THEN RemoveLeadingSlash(out0) ELSE out0
        s3path == S3PathFromUri(fsuri.uri)
    IN IF fsuri.is_local
       THEN Resolved(Backend("LocalFileSystem"),
                     IF has_out THEN ToSlashes(out0) ELSE out0, s3_initialized)
       ELSE IF fsuri.scheme = sHdfs \/ fsuri.scheme = sViewfs
       THEN (IF ~build.hdfs
             THEN Resolved(Error("NotImplemented", <<"Arrow compiled without HDFS support">>),
                           out0, s3_initialized)
             ELSE IF ~made
             THEN Resolved(Error("IOError", <<"HadoopFileSystem">>), out0, s3_initialized)
             ELSE Resolved(Backend("HadoopFileSystem"), out0, s3_initialized))
       ELSE IF fsuri.scheme = sS3
       THEN (IF ~build.s3
             THEN Resolved(Error("NotImplemented", <<"Arrow compiled without S3 support">>),
                           out0, s3_initialized)
             ELSE IF s3path.kind # "OK"
             THEN Resolved(s3path, out0, TRUE)
             ELSE IF ~made
             THEN Resolved(Error("IOError", <<"S3FileSystem">>),
                           IF has_out THEN s3path.val ELSE out0, TRUE)
             ELSE Resolved(Backend("S3FileSystem"),
                           IF has_out THEN s3path.val ELSE out0, TRUE))
       ELSE IF fsuri.scheme = sMock
       THEN Resolved(Backend("MockFileSystem"), out1, s3_initialized)
       ELSE Resolved(Error("Invalid", <<"Unrecognized filesystem type in URI", uri_string>>),
                     out1, s3_initialized)

(* A resolver call returns: the result, the out_path string, and the       *)
(* FileSystemUri the parsing step produced (in back).                      *)
ResolverReturn(op, uri_string, has_out, fsuri, r) ==
    /\ pc' = "returned"
    /\ last' = [op |-> op, args |-> <<uri_string, has_out>>, ret |-> r.ret,
                out_path |-> r.out_path]
    /\ back' = <<fsuri>>
    /\ s3_initialized' = r.s3_initialized
    /\ UNCHANGED <<build, base_path, store, calls, direct, sleeps>>

FileSystemFromUri ==
    /\ pc = "idle"
    /\ \E uri_string \in UriStrings, has_out \in BOOLEAN, made \in BOOLEAN :
        LET fsuri == ParseFileSystemUri(uri_string)
        IN ResolverReturn("FileSystemFromUri", uri_string, has_out, fsuri,
               IF fsuri.kind # "OK" THEN Resolved(fsuri, Untouched, s3_initialized)
               ELSE FileSystemFromUriReal(fsuri.val, uri_string, has_out, made))

FileSystemFromUriOrPath ==
    /\ pc = "idle"
    /\ \E uri_string \in UriStrings, has_out \in BOOLEAN, made \in BOOLEAN :
        LET fsuri == ParseFileSystemUriOrPath(uri_string)
            maybe_fs == FileSystemFromUriReal(fsuri.val, uri_string, has_out, made)
        IN ResolverReturn("FileSystemFromUriOrPath", uri_string, has_out, fsuri,
               IF fsuri.kind # "OK" THEN Resolved(fsuri, Untouched, s3_initialized)
               ELSE IF maybe_fs.ret.kind = "OK" THEN maybe_fs
               ELSE [maybe_fs EXCEPT !.ret =
                        Error("Invalid", <<"Expected URI or absolute local path", uri_string>>)])

ResolverInit ==
    /\ build \in [hdfs : BOOLEAN, s3 : BOOLEAN, win32 : BOOLEAN]
    /\ base_path = <<>>
    /\ store = InitStore
    /\ pc = "idle"
    /\ last = NoCall
    /\ calls = <<>>
    /\ back = <<>>
    /\ direct = NoDirect
    /\ sleeps = 0
    /\ s3_initialized = FALSE

ResolverNext ==
    \/ FileSystemFromUri
    \/ FileSystemFromUriOrPath
    \/ Acknowledge

ResolverSpec == ResolverInit /\ [][ResolverNext]_vars

(* Properties of the resolver *)

KnownSchemes == {sFile, sHdfs, sViewfs, sS3, sMock}

(* C9: through FileSystemFromUri, scheme file gives a local backend and    *)
(* the URI path with its leading slash kept and separators as '/'; scheme  *)
(* mock gives a mock backend and the URI path without leading slash; a     *)
(* scheme other than file, hdfs, viewfs, s3, mock gives Invalid.           *)
C9_SchemeDispatch ==
    (Returned({"FileSystemFromUri"}) /\ back[1].kind = "OK") =>
        LET uri == back[1].val.uri
            has_out == last.args[2]
        IN /\ uri.scheme = sFile =>
                /\ last.ret = Backend("LocalFileSystem")
                /\ has_out => /\ last.out_path = uri.path
                              /\ \A i \in DOMAIN last.out_path : last.out_path[i] # "\\"
           /\ uri.scheme = sMock =>
                /\ last.ret = Backend("MockFileSystem")
                /\ has_out => /\ NoLeadingSlash(last.out_path)
                              /\ \E k \in 0..Len(uri.path) :
                                    /\ \A i \in 1..k : uri.path[i] = kSep
                                    /\ last.out_path = Substr(uri.path, k)
           /\ uri.scheme \notin KnownSchemes => last.ret.kind = "Invalid"
           /\ ~has_out => last.out_path = Untouched

C9_Witness ==
    /\ Returned({"FileSystemFromUri"})
    /\ last.args[1] = sMock \o <<":", "/", "/", "/", "x", "/", "x">>
    /\ last.args[2]
    /\ last.ret = Backend("MockFileSystem")
    /\ last.out_path = <<"x", "/", "x">>

(* C10 (as claimed): in a build without HDFS (without S3), a URI of scheme *)
(* hdfs or viewfs (s3) fails with NotImplemented through both entry points. *)
C10_FeatureGating ==
    (Returned({"FileSystemFromUri", "FileSystemFromUriOrPath"}) /\ back[1].kind = "OK") =>
        LET scheme == back[1].val.scheme
        IN /\ (scheme \in {sHdfs, sViewfs} /\ ~build.hdfs) => last.ret.kind = "NotImplemented"
           /\ (scheme = sS3 /\ ~build.s3) => last.ret.kind = "NotImplemented"

=============================================================================
